---- MODULE Spec2Model ----
(***************************************************************************)
(* Model of pywikibot/tools.py:                                            *)
(*   - ThreadedGenerator : look-ahead generator, one producer thread       *)
(*     (run) feeding a bounded Queue that __iter__ polls;                  *)
(*   - ThreadList        : thread pool limiting the simultaneous threads;  *)
(*   - itergroup         : grouping of an iterable into lists of size.     *)
(* The three components share no state; each has its own specification.   *)
(***************************************************************************)
EXTENDS Integers, Sequences, FiniteSets, TLC

(* ------------------------------ bounds --------------------------------- *)
\* longest sequence the producing routine emits
MaxItems == 5
\* largest qsize given to the constructor
MaxQsize == 3
\* number of Thread objects the callers of ThreadList.append can create
MaxThreads == 4
\* largest limit given to ThreadList
MaxLimit == 2
\* longest iterable given to itergroup
MaxIterLen == 4
\* largest size given to itergroup
MaxSize == 3

(* ----------------------------- variables ------------------------------- *)
VARIABLES
    \* ThreadedGenerator
    target,     \* __init__ was given a target argument
    override,   \* the class of the instance defines generator itself
    made,       \* outcome of __init__: "__init__" (not run yet), "instance"
                \* or "RuntimeError"
    items,      \* what self.generator(*args, **kwargs) emits, in order
    failAt,     \* the routine raises after emitting failAt items (beyond
                \* Len(items): never)
    qsize,      \* capacity of self.queue
    queue,      \* self.queue, oldest item first
    finished,   \* self.finished (threading.Event)
    ppc,        \* position of the background thread in run()
    pos,        \* number of results run() has taken from self.__gen
    result,     \* the loop variable of run()
    ipc,        \* position of the consumer in __iter__
    received,   \* the items __iter__ has yielded, in order
    stopCalled, \* history: stop() was called from outside run()
    late,       \* history: items yielded while self.finished was already set
    wasFull,    \* history: put_nowait has raised Queue.Full
    \* ThreadList
    built,      \* outcome of ThreadList.__init__: "__init__" (not run yet)
                \* or "instance"
    limit,      \* self.limit
    callers,    \* the call sites using the pool
    tl,         \* the list itself: the tracked Thread handles, in order
    th,         \* state of every Thread object: "new", "alive" or "dead"
    nextThread, \* the next Thread object a caller creates
    cpc,        \* position of each caller in append
    thd,        \* the argument of each caller's append
    scan,       \* the rest of the copy list(self) each active_count iterates
    count,      \* the local count of each active_count
    cerr,       \* the exception the caller's last append raised ("none": none)
    steady,     \* history, per caller: since its active_count began no
                \* thread changed state and no other caller changed the list
    snap,       \* the copy list(self) each active_count took, whole
    \* itergroup
    iterable,   \* the argument iterable, as a sequence
    size,       \* the argument size
    idx,        \* number of items the for loop has taken
    group,      \* the local list group
    groups,     \* the lists yielded so far, in order
    gpc         \* position in itergroup: "loop" or "done"

genVars == <<target, override, made, items, failAt, qsize, queue, finished,
             ppc, pos, result, ipc,
             received, stopCalled, late, wasFull>>
poolVars == <<built, limit, callers, tl, th, nextThread, cpc, thd, scan, count,
             cerr, steady, snap>>
groupVars == <<iterable, size, idx, group, groups, gpc>>
vars == <<genVars, poolVars, groupVars>>

(* ======================= ThreadedGenerator ============================= *)

\* threading.Thread.isAlive(): started and run() has not returned or raised
isAlive == ppc \notin {"initial", "dead"}

\* the producing routine raises before it is exhausted
RoutineFails == failAt <= Len(items)

\* state after ThreadedGenerator.__init__ with a target: thread not started,
\* empty Queue(qsize), Event clear
GenInit ==
    /\ target = TRUE /\ override = FALSE /\ made = "instance"
    /\ \E n \in 0..MaxItems : items = [i \in 1..n |-> i]
    /\ failAt \in 0..(Len(items) + 1)
    /\ qsize \in 1..MaxQsize
    /\ queue = <<>>
    /\ finished = FALSE
    /\ ppc = "initial"
    /\ pos = 0
    /\ result = 0
    /\ ipc = "isAlive"
    /\ received = <<>>
    /\ stopCalled = FALSE
    /\ late = 0
    /\ wasFull = FALSE

\* a generator that is not in use
GenIdle ==
    /\ target = TRUE /\ override = FALSE /\ made = "instance"
    /\ items = <<>> /\ failAt = 1 /\ qsize = 1 /\ queue = <<>>
    /\ finished = FALSE /\ ppc = "initial" /\ pos = 0 /\ result = 0
    /\ ipc = "isAlive" /\ received = <<>> /\ stopCalled = FALSE /\ late = 0
    /\ wasFull = FALSE

\* state at a call of the constructor: no Thread object yet (ppc "none"),
\* the consumer has not got its instance (ipc "new"); target may be missing
\* and the class may or may not define generator
GenNew ==
    /\ target \in BOOLEAN /\ override \in BOOLEAN /\ made = "__init__"
    /\ \E n \in 0..MaxItems : items = [i \in 1..n |-> i]
    /\ failAt \in 0..(Len(items) + 1)
    /\ qsize \in 1..MaxQsize
    /\ queue = <<>>
    /\ finished = FALSE
    /\ ppc = "none"
    /\ pos = 0
    /\ result = 0
    /\ ipc = "new"
    /\ received = <<>>
    /\ stopCalled = FALSE
    /\ late = 0
    /\ wasFull = FALSE

\* GenConstruct without the test for a generator: an instance is built
\* whether or not there is a routine
GenConstructUnchecked ==
    /\ made = "__init__"
    /\ made' = "instance" /\ ppc' = "initial" /\ queue' = <<>>
    /\ finished' = FALSE /\ ipc' = "isAlive"
    /\ UNCHANGED <<target, override, items, failAt, qsize, pos, result, received,
                   stopCalled, late, wasFull>>
    /\ UNCHANGED <<poolVars, groupVars>>

\* line 109-118: __init__: with no target and no generator attribute raise
\* RuntimeError before threading.Thread.__init__ is reached; otherwise
\* initialise the Thread (not started), the empty Queue(qsize) and the
\* clear Event.  The routine is not called here.
GenConstruct ==
    /\ made = "__init__"
    /\ IF ~target /\ ~override
         THEN /\ made' = "RuntimeError"
              /\ UNCHANGED <<ppc, queue, finished, ipc>>
         ELSE /\ made' = "instance"
              /\ ppc' = "initial"
              /\ queue' = <<>>
              /\ finished' = FALSE
              /\ ipc' = "isAlive"
    /\ UNCHANGED <<target, override, items, failAt, qsize, pos, result, received,
                   stopCalled, late, wasFull>>
    /\ UNCHANGED <<poolVars, groupVars>>

(* ---- run(): the background thread, lines 137-153 ---- *)

\* line 139-140: self.__gen = self.generator(...); for result in self.__gen
\* The routine raises (the exception leaves run(), the thread dies with
\* self.finished untouched), emits its next item, or is exhausted.
RunNext ==
    /\ ppc = "next"
    /\ IF pos = failAt
         THEN ppc' = "dead" /\ UNCHANGED <<pos, result>>
         ELSE IF pos < Len(items)
           THEN ppc' = "isSet" /\ pos' = pos + 1 /\ result' = items[pos + 1]
           ELSE ppc' = "drain" /\ UNCHANGED <<pos, result>>
    /\ UNCHANGED <<target, override, made>>
    /\ UNCHANGED <<items, failAt, qsize, queue, finished, ipc, received,
                   stopCalled, late, wasFull>>
    /\ UNCHANGED <<poolVars, groupVars>>

\* RunIsSet without the test of self.finished: the put is always tried
RunIsSetBlind ==
    /\ ppc = "isSet"
    /\ ppc' = "put"
    /\ UNCHANGED <<target, override, made>>
    /\ UNCHANGED <<items, failAt, qsize, queue, finished, pos, result, ipc,
                   received, stopCalled, late, wasFull>>
    /\ UNCHANGED <<poolVars, groupVars>>

\* line 142-143: if self.finished.isSet(): return
RunIsSet ==
    /\ ppc = "isSet"
    /\ ppc' = IF finished THEN "dead" ELSE "put"
    /\ UNCHANGED <<target, override, made>>
    /\ UNCHANGED <<items, failAt, qsize, queue, finished, pos, result, ipc,
                   received, stopCalled, late, wasFull>>
    /\ UNCHANGED <<poolVars, groupVars>>

\* RunPut without the retry: on Queue.Full the result is given up and the
\* for loop goes on
RunPutDropping ==
    /\ ppc = "put"
    /\ IF Len(queue) < qsize
         THEN queue' = Append(queue, result) /\ wasFull' = wasFull
         ELSE queue' = queue /\ wasFull' = TRUE
    /\ ppc' = "next"
    /\ UNCHANGED <<target, override, made>>
    /\ UNCHANGED <<items, failAt, qsize, finished, pos, result, ipc, received,
                   stopCalled, late>>
    /\ UNCHANGED <<poolVars, groupVars>>

\* RunPut on a queue that ignores its capacity: the put always succeeds
RunPutUnbounded ==
    /\ ppc = "put"
    /\ queue' = Append(queue, result)
    /\ ppc' = "next"
    /\ UNCHANGED <<target, override, made>>
    /\ UNCHANGED <<items, failAt, qsize, finished, pos, result, ipc, received,
                   stopCalled, late, wasFull>>
    /\ UNCHANGED <<poolVars, groupVars>>

\* line 144-149: self.queue.put_nowait(result); Queue.Full when the queue
\* holds qsize items, then sleep and retry; otherwise break to the for loop
RunPut ==
    /\ ppc = "put"
    /\ IF Len(queue) < qsize
         THEN queue' = Append(queue, result) /\ ppc' = "next"
              /\ wasFull' = wasFull
         ELSE queue' = queue /\ ppc' = "sleep" /\ wasFull' = TRUE
    /\ UNCHANGED <<target, override, made>>
    /\ UNCHANGED <<items, failAt, qsize, finished, pos, result, ipc, received,
                   stopCalled, late>>
    /\ UNCHANGED <<poolVars, groupVars>>

\* line 147-148: time.sleep(0.25); continue
RunRetry ==
    /\ ppc = "sleep"
    /\ ppc' = "isSet"
    /\ UNCHANGED <<target, override, made>>
    /\ UNCHANGED <<items, failAt, qsize, queue, finished, pos, result, ipc,
                   received, stopCalled, late, wasFull>>
    /\ UNCHANGED <<poolVars, groupVars>>

\* line 151, left operand: while not self.finished.isSet() and ...
RunDrain ==
    /\ ppc = "drain"
    /\ ppc' = IF finished THEN "stop" ELSE "empty"
    /\ UNCHANGED <<target, override, made>>
    /\ UNCHANGED <<items, failAt, qsize, queue, finished, pos, result, ipc,
                   received, stopCalled, late, wasFull>>
    /\ UNCHANGED <<poolVars, groupVars>>

\* RunEmpty without the test of the queue: the wait ends at once
RunEmptyHasty ==
    /\ ppc = "empty"
    /\ ppc' = "stop"
    /\ UNCHANGED <<target, override, made>>
    /\ UNCHANGED <<items, failAt, qsize, queue, finished, ipc, pos, result,
                   received, stopCalled, late, wasFull>>
    /\ UNCHANGED <<poolVars, groupVars>>

\* line 151-152, right operand: ... and not self.queue.empty(): time.sleep(0.25)
RunEmpty ==
    /\ ppc = "empty"
    /\ ppc' = IF queue = <<>> THEN "stop" ELSE "drain"
    /\ UNCHANGED <<target, override, made>>
    /\ UNCHANGED <<items, failAt, qsize, queue, finished, pos, result, ipc,
                   received, stopCalled, late, wasFull>>
    /\ UNCHANGED <<poolVars, groupVars>>

\* RunStop without the call of self.stop(): run() just returns
RunStopSilent ==
    /\ ppc = "stop"
    /\ finished' = finished
    /\ ppc' = "dead"
    /\ UNCHANGED <<target, override, made>>
    /\ UNCHANGED <<items, failAt, qsize, queue, pos, result, ipc, received,
                   stopCalled, late, wasFull>>
    /\ UNCHANGED <<poolVars, groupVars>>

\* line 153: self.stop(), and run() returns
RunStop ==
    /\ ppc = "stop"
    /\ finished' = TRUE
    /\ ppc' = "dead"
    /\ UNCHANGED <<target, override, made>>
    /\ UNCHANGED <<items, failAt, qsize, queue, pos, result, ipc, received,
                   stopCalled, late, wasFull>>
    /\ UNCHANGED <<poolVars, groupVars>>

(* ---- __iter__(): the consumer, lines 120-131 ---- *)

\* line 122, left operand: if not self.isAlive() and ...
IterIsAlive ==
    /\ ipc = "isAlive"
    /\ ipc' = IF isAlive THEN "loop" ELSE "isSet"
    /\ UNCHANGED <<target, override, made>>
    /\ UNCHANGED <<items, failAt, qsize, queue, finished, ppc, pos, result,
                   received, stopCalled, late, wasFull>>
    /\ UNCHANGED <<poolVars, groupVars>>

\* IterIsSet without the test of self.finished: a thread that is not
\* alive is always started
IterIsSetAlways ==
    /\ ipc = "isSet"
    /\ ipc' = "start"
    /\ UNCHANGED <<target, override, made>>
    /\ UNCHANGED <<items, failAt, qsize, queue, finished, ppc, pos, result,
                   received, stopCalled, late, wasFull>>
    /\ UNCHANGED <<poolVars, groupVars>>

\* line 122, right operand: ... and not self.finished.isSet()
IterIsSet ==
    /\ ipc = "isSet"
    /\ ipc' = IF finished THEN "loop" ELSE "start"
    /\ UNCHANGED <<target, override, made>>
    /\ UNCHANGED <<items, failAt, qsize, queue, finished, ppc, pos, result,
                   received, stopCalled, late, wasFull>>
    /\ UNCHANGED <<poolVars, groupVars>>

\* line 123: self.start(); threading.Thread.start raises RuntimeError when
\* the thread was started before
IterStart ==
    /\ ipc = "start"
    /\ IF ppc = "initial"
         THEN ppc' = "next" /\ ipc' = "loop"
         ELSE ppc' = ppc /\ ipc' = "RuntimeError"
    /\ UNCHANGED <<target, override, made>>
    /\ UNCHANGED <<items, failAt, qsize, queue, finished, pos, result,
                   received, stopCalled, late, wasFull>>
    /\ UNCHANGED <<poolVars, groupVars>>

\* IterLoop that keeps draining: the loop ends only when self.finished is
\* set and the queue is empty
IterLoopDraining ==
    /\ ipc = "loop"
    /\ ipc' = IF finished /\ queue = <<>> THEN "done" ELSE "get"
    /\ UNCHANGED <<target, override, made>>
    /\ UNCHANGED <<items, failAt, qsize, queue, finished, ppc, pos, result,
                   received, stopCalled, late, wasFull>>
    /\ UNCHANGED <<poolVars, groupVars>>

\* line 125: while not self.finished.isSet()
IterLoop ==
    /\ ipc = "loop"
    /\ ipc' = IF finished THEN "done" ELSE "get"
    /\ UNCHANGED <<target, override, made>>
    /\ UNCHANGED <<items, failAt, qsize, queue, finished, ppc, pos, result,
                   received, stopCalled, late, wasFull>>
    /\ UNCHANGED <<poolVars, groupVars>>

\* line 126-129: yield self.queue.get(True, 0.25); on Queue.Empty (nothing
\* arrived within the timeout) pass.  Either way back to the loop test.
IterGet ==
    /\ ipc = "get"
    /\ IF queue # <<>>
         THEN /\ received' = Append(received, Head(queue))
              /\ queue' = Tail(queue)
              /\ late' = IF finished THEN late + 1 ELSE late
         ELSE UNCHANGED <<received, queue, late>>
    /\ ipc' = "loop"
    /\ UNCHANGED <<target, override, made>>
    /\ UNCHANGED <<items, failAt, qsize, finished, ppc, pos, result, stopCalled,
                   wasFull>>
    /\ UNCHANGED <<poolVars, groupVars>>

\* line 130-131: except KeyboardInterrupt: self.stop()
IterInterrupt ==
    /\ ipc = "get"
    /\ finished' = TRUE
    /\ stopCalled' = TRUE
    /\ ipc' = "loop"
    /\ UNCHANGED <<target, override, made>>
    /\ UNCHANGED <<items, failAt, qsize, queue, ppc, pos, result, received, late, wasFull>>
    /\ UNCHANGED <<poolVars, groupVars>>

\* line 120-122: the consumer iterates the instance again: after its
\* previous iteration ended, or leaving the previous one suspended at its
\* yield (an item was yielded and the loop has not gone on)
IterAgain ==
    /\ ipc = "done" \/ (ipc = "loop" /\ received # <<>>)
    /\ ipc' = "isAlive"
    /\ UNCHANGED <<target, override, made>>
    /\ UNCHANGED <<items, failAt, qsize, queue, finished, ppc, pos, result,
                   received, stopCalled, late, wasFull>>
    /\ UNCHANGED <<poolVars, groupVars>>

\* line 133-135: stop(), called by the program using the generator
Stop ==
    /\ finished' = TRUE
    /\ stopCalled' = TRUE
    /\ UNCHANGED <<target, override, made>>
    /\ UNCHANGED <<items, failAt, qsize, queue, ppc, pos, result, ipc,
                   received, late, wasFull>>
    /\ UNCHANGED <<poolVars, groupVars>>

Producer == RunNext \/ RunIsSet \/ RunPut \/ RunRetry \/ RunDrain \/ RunEmpty
              \/ RunStop
Consumer == IterIsAlive \/ IterIsSet \/ IterStart \/ IterLoop \/ IterGet

NextGen ==
    \/ RunNext \/ RunIsSet \/ RunPut \/ RunRetry \/ RunDrain \/ RunEmpty
    \/ RunStop
    \/ IterIsAlive \/ IterIsSet \/ IterStart \/ IterLoop \/ IterGet
    \/ IterInterrupt
    \/ Stop

\* the generator with a consumer that may iterate it more than once
NextGenAgain == NextGen \/ IterAgain

\* the generator from its constructor call on: nothing can be done with
\* the instance before __init__ has returned it
NextGenNew == GenConstruct \/ (made = "instance" /\ NextGen)

(* ============================ ThreadList =============================== *)

Threads == 1..MaxThreads
\* what a caller can hand to append: a fresh threading.Thread (one of
\* Threads), or this value, which is no Thread
NotAThread == 0
CallSites == {"c1", "c2"}

\* number of threads whose isAlive() is true
Running == Cardinality({t \in Threads : th[t] = "alive"})

\* the handles of a list, as a set
Tracked == {tl[i] : i \in 1..Len(tl)}

\* list.remove(x): the list without its first item equal to x
Remove(lst, x) ==
    LET i == CHOOSE j \in 1..Len(lst) :
                 lst[j] = x /\ \A k \in 1..(j - 1) : lst[k] # x
    IN  SubSeq(lst, 1, i - 1) \o SubSeq(lst, i + 1, Len(lst))

\* steady after caller c changed the list or a thread: the scans of the
\* other callers are disturbed
Disturb(c) == [d \in CallSites |-> IF d = c THEN steady[c] ELSE FALSE]

\* state after ThreadList.__init__(limit) with no initial items
PoolInit ==
    /\ built = "instance"
    /\ limit \in 1..MaxLimit
    /\ callers \in {{"c1"}, CallSites}
    /\ tl = <<>>
    /\ th = [t \in Threads |-> "new"]
    /\ nextThread = 1
    /\ cpc = [c \in CallSites |-> "idle"]
    /\ thd = [c \in CallSites |-> NotAThread]
    /\ scan = [c \in CallSites |-> <<>>]
    /\ count = [c \in CallSites |-> 0]
    /\ cerr = [c \in CallSites |-> "none"]
    /\ steady = [c \in CallSites |-> FALSE]
    /\ snap = [c \in CallSites |-> <<>>]

\* a pool that is not in use
PoolIdle ==
    /\ built = "instance"
    /\ limit = 1 /\ callers = {} /\ tl = <<>>
    /\ th = [t \in Threads |-> "new"] /\ nextThread = 1
    /\ cpc = [c \in CallSites |-> "idle"]
    /\ thd = [c \in CallSites |-> NotAThread]
    /\ scan = [c \in CallSites |-> <<>>]
    /\ count = [c \in CallSites |-> 0]
    /\ cerr = [c \in CallSites |-> "none"]
    /\ steady = [c \in CallSites |-> FALSE]
    /\ snap = [c \in CallSites |-> <<>>]

\* state at a call ThreadList(limit) with no initial items, limit of any sign
PoolNew ==
    /\ built = "__init__"
    /\ limit \in (-1)..MaxLimit
    /\ callers = {} /\ tl = <<>>
    /\ th = [t \in Threads |-> "new"] /\ nextThread = 1
    /\ cpc = [c \in CallSites |-> "idle"]
    /\ thd = [c \in CallSites |-> NotAThread]
    /\ scan = [c \in CallSites |-> <<>>]
    /\ count = [c \in CallSites |-> 0]
    /\ cerr = [c \in CallSites |-> "none"]
    /\ steady = [c \in CallSites |-> FALSE]
    /\ snap = [c \in CallSites |-> <<>>]

\* line 202-207: __init__ stores limit as it is, builds the empty list and
\* loops over no item; the pool is then handed to its callers
PoolConstruct ==
    /\ built = "__init__"
    /\ built' = "instance"
    /\ limit' = limit
    /\ tl' = <<>>
    /\ callers' \in {{"c1"}, CallSites}
    /\ UNCHANGED <<th, nextThread, cpc, thd, scan, count, cerr, steady>>
    /\ UNCHANGED snap
    /\ UNCHANGED <<genVars, groupVars>>

\* line 219: a caller enters append(thd) with a newly created Thread or
\* with some other value
AppendCall(c) ==
    /\ c \in callers
    /\ cpc[c] = "idle"
    /\ \/ /\ nextThread <= MaxThreads
          /\ thd' = [thd EXCEPT ![c] = nextThread]
          /\ nextThread' = nextThread + 1
       \/ /\ thd' = [thd EXCEPT ![c] = NotAThread]
          /\ nextThread' = nextThread
    /\ cpc' = [cpc EXCEPT ![c] = "isinstance"]
    /\ cerr' = [cerr EXCEPT ![c] = "none"]
    /\ UNCHANGED <<built, limit, callers, tl, th, scan, count>>
    /\ UNCHANGED steady
    /\ UNCHANGED snap
    /\ UNCHANGED <<genVars, groupVars>>

\* AppendIsInstance with the type test left out
AppendIsInstanceMissing(c) ==
    /\ c \in callers
    /\ cpc[c] = "isinstance"
    /\ cpc' = [cpc EXCEPT ![c] = "active_count"]
    /\ UNCHANGED <<built, limit, callers, tl, th, nextThread, thd, scan, count,
                   cerr>>
    /\ UNCHANGED steady
    /\ UNCHANGED snap
    /\ UNCHANGED <<genVars, groupVars>>

\* line 220-221: if not isinstance(thd, threading.Thread): raise TypeError
AppendIsInstance(c) ==
    /\ c \in callers
    /\ cpc[c] = "isinstance"
    /\ IF thd[c] = NotAThread
         THEN /\ cerr' = [cerr EXCEPT ![c] = "TypeError"]
              /\ cpc' = [cpc EXCEPT ![c] = "idle"]
         ELSE /\ cerr' = cerr
              /\ cpc' = [cpc EXCEPT ![c] = "active_count"]
    /\ UNCHANGED <<built, limit, callers, tl, th, nextThread, thd, scan, count>>
    /\ UNCHANGED steady
    /\ UNCHANGED snap
    /\ UNCHANGED <<genVars, groupVars>>

\* line 211-212: count = 0; for item in list(self): the loop runs over a
\* copy of the list taken now
ActiveCountBegin(c) ==
    /\ c \in callers
    /\ cpc[c] = "active_count"
    /\ scan' = [scan EXCEPT ![c] = tl]
    /\ count' = [count EXCEPT ![c] = 0]
    /\ cpc' = [cpc EXCEPT ![c] = "for"]
    /\ UNCHANGED <<built, limit, callers, tl, th, nextThread, thd, cerr>>
    /\ steady' = [steady EXCEPT ![c] = TRUE]
    /\ snap' = [snap EXCEPT ![c] = tl]
    /\ UNCHANGED <<genVars, groupVars>>

\* ActiveCountItem without line 216: an item that is not alive is skipped
\* and stays in the list
ActiveCountItemKeeping(c) ==
    /\ c \in callers
    /\ cpc[c] = "for"
    /\ scan[c] # <<>>
    /\ LET item == Head(scan[c])
       IN  IF th[item] = "alive"
             THEN /\ count' = [count EXCEPT ![c] = count[c] + 1]
                  /\ scan' = [scan EXCEPT ![c] = Tail(scan[c])]
                  /\ UNCHANGED <<tl, cpc, cerr, steady, snap>>
             ELSE /\ scan' = [scan EXCEPT ![c] = Tail(scan[c])]
                  /\ UNCHANGED <<tl, count, cpc, cerr, steady, snap>>
    /\ UNCHANGED <<built, limit, callers, th, nextThread, thd>>
    /\ UNCHANGED <<genVars, groupVars>>

\* line 213-216: one iteration: count an alive item, remove any other one
\* (a Thread not started yet is not alive either); list.remove raises
\* ValueError when the item is no longer in the list
ActiveCountItem(c) ==
    /\ c \in callers
    /\ cpc[c] = "for"
    /\ scan[c] # <<>>
    /\ LET item == Head(scan[c])
       IN  IF th[item] = "alive"
             THEN /\ count' = [count EXCEPT ![c] = count[c] + 1]
                  /\ scan' = [scan EXCEPT ![c] = Tail(scan[c])]
                  /\ UNCHANGED <<tl, cpc, cerr, steady, snap>>
             ELSE IF item \in Tracked
               THEN /\ tl' = Remove(tl, item)
                    /\ scan' = [scan EXCEPT ![c] = Tail(scan[c])]
                    /\ steady' = Disturb(c)
                    /\ UNCHANGED <<count, cpc, cerr, snap>>
               ELSE /\ cerr' = [cerr EXCEPT ![c] = "ValueError"]
                    /\ cpc' = [cpc EXCEPT ![c] = "idle"]
                    /\ scan' = [scan EXCEPT ![c] = <<>>]
                    /\ steady' = [steady EXCEPT ![c] = FALSE]
                    /\ snap' = [snap EXCEPT ![c] = <<>>]
                    /\ UNCHANGED <<tl, count>>
    /\ UNCHANGED <<built, limit, callers, th, nextThread, thd>>
    /\ UNCHANGED <<genVars, groupVars>>

\* ActiveCountReturn with the loop test of append written with > for >=
ActiveCountReturnOffByOne(c) ==
    /\ c \in callers
    /\ cpc[c] = "for"
    /\ scan[c] = <<>>
    /\ cpc' = [cpc EXCEPT ![c] = IF count[c] > limit THEN "sleep" ELSE "append"]
    /\ UNCHANGED <<built, limit, callers, tl, th, nextThread, thd, scan, count,
                   cerr>>
    /\ steady' = [steady EXCEPT ![c] = FALSE]
    /\ snap' = [snap EXCEPT ![c] = <<>>]
    /\ UNCHANGED <<genVars, groupVars>>

\* line 217 and 222: return count; while self.active_count() >= self.limit
ActiveCountReturn(c) ==
    /\ c \in callers
    /\ cpc[c] = "for"
    /\ scan[c] = <<>>
    /\ cpc' = [cpc EXCEPT ![c] = IF count[c] >= limit THEN "sleep" ELSE "append"]
    /\ UNCHANGED <<built, limit, callers, tl, th, nextThread, thd, scan, count,
                   cerr>>
    /\ steady' = [steady EXCEPT ![c] = FALSE]
    /\ snap' = [snap EXCEPT ![c] = <<>>]
    /\ UNCHANGED <<genVars, groupVars>>

\* line 223: time.sleep(2), then the loop test again
AppendSleep(c) ==
    /\ c \in callers
    /\ cpc[c] = "sleep"
    /\ cpc' = [cpc EXCEPT ![c] = "active_count"]
    /\ UNCHANGED <<built, limit, callers, tl, th, nextThread, thd, scan, count,
                   cerr>>
    /\ UNCHANGED steady
    /\ UNCHANGED snap
    /\ UNCHANGED <<genVars, groupVars>>

\* line 224: list.append(self, thd)
AppendRegister(c) ==
    /\ c \in callers
    /\ cpc[c] = "append"
    /\ tl' = Append(tl, thd[c])
    /\ cpc' = [cpc EXCEPT ![c] = "start"]
    /\ UNCHANGED <<built, limit, callers, th, nextThread, thd, scan, count,
                   cerr>>
    /\ steady' = Disturb(c)
    /\ UNCHANGED snap
    /\ UNCHANGED <<genVars, groupVars>>

\* line 225: thd.start(), and append returns
AppendStart(c) ==
    /\ c \in callers
    /\ cpc[c] = "start"
    /\ th' = [th EXCEPT ![thd[c]] = "alive"]
    /\ cpc' = [cpc EXCEPT ![c] = "idle"]
    /\ UNCHANGED <<built, limit, callers, tl, nextThread, thd, scan, count,
                   cerr>>
    /\ steady' = Disturb(c)
    /\ UNCHANGED snap
    /\ UNCHANGED <<genVars, groupVars>>

\* the target of a started thread returns: the thread is no longer alive
ThreadExit(t) ==
    /\ th[t] = "alive"
    /\ th' = [th EXCEPT ![t] = "dead"]
    /\ steady' = [c \in CallSites |-> FALSE]
    /\ UNCHANGED <<built, limit, callers, tl, nextThread, cpc, thd, scan, count,
                   cerr>>
    /\ UNCHANGED snap
    /\ UNCHANGED <<genVars, groupVars>>

NextPool ==
    \/ \E c \in CallSites : AppendCall(c)
    \/ \E c \in CallSites : AppendIsInstance(c)
    \/ \E c \in CallSites : ActiveCountBegin(c)
    \/ \E c \in CallSites : ActiveCountItem(c)
    \/ \E c \in CallSites : ActiveCountReturn(c)
    \/ \E c \in CallSites : AppendSleep(c)
    \/ \E c \in CallSites : AppendRegister(c)
    \/ \E c \in CallSites : AppendStart(c)
    \/ \E t \in Threads : ThreadExit(t)

(* ============================= itergroup =============================== *)

Values == {"a", "b"}

\* all sequences over s of length at most n
SeqsUpTo(s, n) == UNION {[1..k -> s] : k \in 0..n}

\* state at the first next() of itergroup(iterable, size): group = []
GroupInit ==
    /\ iterable \in SeqsUpTo(Values, MaxIterLen)
    /\ size \in (-1)..MaxSize
    /\ idx = 0
    /\ group = <<>>
    /\ groups = <<>>
    /\ gpc = "loop"

\* an itergroup that is not in use
GroupIdle ==
    /\ iterable = <<>> /\ size = 1 /\ idx = 0 /\ group = <<>>
    /\ groups = <<>> /\ gpc = "done"

\* GroupItem without the reset group = [] after a yield
GroupItemKeeping ==
    /\ gpc = "loop"
    /\ idx < Len(iterable)
    /\ idx' = idx + 1
    /\ LET g == Append(group, iterable[idx + 1])
       IN  /\ group' = g
           /\ groups' = IF Len(g) = size THEN Append(groups, g) ELSE groups
    /\ UNCHANGED <<iterable, size, gpc>>
    /\ UNCHANGED <<genVars, poolVars>>

\* line 175-179: one iteration of the for loop: append the item and, when
\* the group holds size items, yield it and start a new one
GroupItem ==
    /\ gpc = "loop"
    /\ idx < Len(iterable)
    /\ idx' = idx + 1
    /\ LET g == Append(group, iterable[idx + 1])
       IN  IF Len(g) = size
             THEN groups' = Append(groups, g) /\ group' = <<>>
             ELSE groups' = groups /\ group' = g
    /\ UNCHANGED <<iterable, size, gpc>>
    /\ UNCHANGED <<genVars, poolVars>>

\* GroupRest without the test if group: the last group is yielded even
\* when it is empty
GroupRestAlways ==
    /\ gpc = "loop"
    /\ idx = Len(iterable)
    /\ groups' = Append(groups, group)
    /\ gpc' = "done"
    /\ UNCHANGED <<iterable, size, idx, group>>
    /\ UNCHANGED <<genVars, poolVars>>

\* line 180-181: the iterable is exhausted: if group: yield group
GroupRest ==
    /\ gpc = "loop"
    /\ idx = Len(iterable)
    /\ groups' = IF group # <<>> THEN Append(groups, group) ELSE groups
    /\ gpc' = "done"
    /\ UNCHANGED <<iterable, size, idx, group>>
    /\ UNCHANGED <<genVars, poolVars>>

NextGroup == GroupItem \/ GroupRest

\* the steps caller c takes inside append once it has called it
CallerStep(c) ==
    \/ AppendIsInstance(c) \/ ActiveCountBegin(c) \/ ActiveCountItem(c)
    \/ ActiveCountReturn(c) \/ AppendSleep(c) \/ AppendRegister(c)
    \/ AppendStart(c)

\* the pool from its constructor call on
NextPoolNew == PoolConstruct \/ NextPool

(* =========================== specifications ============================ *)

InitGen == GenInit /\ PoolIdle /\ GroupIdle
InitPool == GenIdle /\ PoolInit /\ GroupIdle
InitGroup == GenIdle /\ PoolIdle /\ GroupInit

\* the generator alone, no assumption on scheduling
SpecGen == InitGen /\ [][NextGen]_vars

\* the generator with both threads scheduled again and again: the
\* background thread runs whenever it can, and the consumer keeps pulling
\* (its get returns within the timeout); stop() and KeyboardInterrupt are
\* up to the environment
FairSpecGen == SpecGen /\ WF_vars(Producer) /\ WF_vars(Consumer)

SpecPool == InitPool /\ [][NextPool]_vars

\* the pool with every caller scheduled again and again while it is inside
\* append (each sleep ends); when append is called and whether a thread
\* ever exits is up to the environment
FairSpecPool == SpecPool /\ \A c \in CallSites : WF_vars(CallerStep(c))

SpecGroup == InitGroup /\ [][NextGroup]_vars

InitGenNew == GenNew /\ PoolIdle /\ GroupIdle

\* the generator from the call of its constructor, with or without routine
SpecGenNew == InitGenNew /\ [][NextGenNew]_vars

\* the generator iterated any number of times, no assumption on scheduling
SpecGenAgain == InitGen /\ [][NextGenAgain]_vars

InitPoolNew == GenIdle /\ PoolNew /\ GroupIdle

\* the pool from the call of its constructor, with a limit of any sign
SpecPoolNew == InitPoolNew /\ [][NextPoolNew]_vars


(* ================== properties of ThreadedGenerator ==================== *)

\* C1: when the routine emits items without failing and stop() is never
\* called, a single consumer that keeps pulling receives exactly items, in
\* order, each once, and its iteration then ends -- for every qsize, also
\* when the producer found the queue full and retried.
C1_YieldsAllInOrder ==
    /\ [](ipc = "done" /\ ~stopCalled /\ ~RoutineFails => received = items)
    /\ (~RoutineFails => <>(ipc = "done" \/ stopCalled))

\* the iteration ended with no stop() after the producer had to retry on a
\* full queue: 5 items through a queue of 2
C1_Witness ==
    /\ ipc = "done" /\ ~stopCalled /\ ~RoutineFails /\ wasFull
    /\ Len(items) = 5 /\ qsize = 2 /\ received = items

\* C2: once stop() has been called, in whatever state, the consumer's
\* iteration ends and the background thread is no longer alive, for good;
\* each leaves at its next test of self.finished.
C2_StopEndsBoth ==
    /\ stopCalled ~> [](ipc = "done" /\ ~isAlive)
    /\ [][finished /\ ipc = "loop" => ipc' \in {"loop", "done"}]_vars
    /\ [][finished /\ ppc = "isSet" => ppc' \in {"isSet", "dead"}]_vars
    /\ [][finished /\ ppc = "drain" => ppc' \in {"drain", "stop"}]_vars

\* both ended after a stop() that left items buffered and items unproduced
C2_Witness ==
    /\ stopCalled /\ ipc = "done" /\ ppc = "dead"
    /\ queue # <<>> /\ pos < Len(items) /\ wasFull

\* C6: when the routine raises after emitting some items and stop() is not
\* called, the consumer's iteration still ends.
C6_FailureEndsIteration ==
    (RoutineFails /\ failAt >= 1) => <>(ipc = "done" \/ stopCalled)

\* C7: an item is yielded with self.finished already set at most once (the
\* get that was under way), and once the loop test has seen self.finished
\* set nothing more is yielded, whatever the queue still holds.
C7_NothingAfterFinished ==
    /\ [](late <= 1)
    /\ [][ipc = "done" => received' = received]_vars
    /\ [][finished /\ ipc = "loop" /\ ipc' # ipc => ipc' = "done" /\ queue' = queue]_vars

\* the loop ended after one late item, with items left in the queue
C7_Witness == ipc = "done" /\ stopCalled /\ late = 1 /\ Len(queue) >= 2

\* C8: the queue never holds more than qsize items; a put on a queue that
\* holds qsize items fails (the producer goes to sleep) and a full queue
\* changes only by the consumer taking its oldest item.
C8_QueueBounded ==
    /\ [](Len(queue) <= qsize)
    /\ [][Len(queue) = qsize => queue' = queue \/ queue' = Tail(queue)]_vars
    /\ [][ppc = "put" /\ Len(queue) = qsize /\ ppc' # ppc
            => ppc' = "sleep" /\ queue' = queue]_vars

\* the producer sleeps on a full queue
C8_Witness == ppc = "sleep" /\ Len(queue) = qsize /\ wasFull /\ ~finished

\* C13: __init__ with neither a target nor a generator attribute raises
\* RuntimeError in the constructor call itself and no thread exists or
\* runs afterwards; with a routine it returns an idle instance: thread not
\* started, self.finished clear, queue empty, routine not called.
C13_ConstructorChecksRoutine ==
    /\ [][made = "__init__" /\ ~target /\ ~override /\ made' # made
            => made' = "RuntimeError" /\ ppc' = "none"]_vars
    /\ [](made = "RuntimeError" => ppc = "none" /\ ipc = "new" /\ pos = 0)
    /\ [](made = "instance" => target \/ override)
    /\ [][made = "__init__" /\ made' = "instance"
            => /\ ppc' = "initial" /\ ~finished' /\ queue' = <<>>
               /\ pos' = 0 /\ received' = <<>>]_vars

\* the constructor raised: no target, no generator attribute, no thread
C13_Witness == made = "RuntimeError" /\ ~target /\ ~override /\ ppc = "none"

\* C15: while stop() has not been called and the routine does not fail,
\* self.finished is set and the thread ends only by line 153, reached with
\* the routine exhausted and the queue seen empty; so as long as items stay
\* in the queue unconsumed the started thread is alive and self.finished is
\* clear, and the wait of line 151 is left only on an empty queue.
C15_AliveUntilDrained ==
    /\ [](~stopCalled /\ ~RoutineFails /\ ppc # "initial" /\ queue # <<>>
             => isAlive /\ ~finished)
    /\ [](~stopCalled /\ ~RoutineFails /\ (finished \/ ppc = "dead")
             => pos = Len(items) /\ queue = <<>> /\ received = items)
    /\ [][~stopCalled' /\ ~RoutineFails /\ ppc \in {"drain", "empty"}
            /\ queue # <<>> => ppc' \in {"drain", "empty"} /\ ~finished']_vars

\* the routine is exhausted, the thread polls a queue that still holds
\* two items the consumer has not pulled, no stop()
C15_Witness ==
    /\ ppc = "empty" /\ pos = Len(items) /\ Len(queue) >= 2 /\ ~stopCalled
    /\ ~RoutineFails /\ ~finished /\ received # <<>>

\* C16: when the routine does not fail and the consumer keeps pulling, then
\* unless stop() is called the thread sets self.finished and ends by
\* itself; the wait after the for loop goes on to line 153 only on an empty
\* queue, and line 153 sets self.finished as the thread ends.
C16_FinishesByItself ==
    /\ (~RoutineFails => <>(stopCalled \/ (finished /\ ppc = "dead")))
    /\ [][ppc = "empty" /\ ppc' = "stop" => queue = <<>> /\ pos = Len(items)]_vars
    /\ [][ppc = "stop" /\ ppc' # ppc => finished' /\ ppc' = "dead"]_vars

\* the thread ended by itself with self.finished set after the consumer
\* pulled all five items, no stop()
C16_Witness ==
    /\ finished /\ ppc = "dead" /\ ~stopCalled /\ ~RoutineFails
    /\ Len(items) = 5 /\ received = items

\* C19: self.finished, once set, stays set; stop() on a finished instance
\* changes nothing of the instance; an __iter__ begun with self.finished
\* set never gets to start() nor to a get, so it starts no thread and
\* yields nothing.
C19_FinishedIsTerminal ==
    /\ [][finished => finished']_vars
    /\ [][finished /\ stopCalled' # stopCalled
            => /\ queue' = queue /\ ppc' = ppc /\ pos' = pos
               /\ received' = received]_vars
    /\ [](finished /\ ipc = "isAlive"
            => [](ipc \notin {"start", "get", "RuntimeError"}))
    /\ [][finished /\ ipc \in {"isAlive", "isSet", "loop", "done"}
            => /\ received' = received
               /\ ppc = "initial" => ppc' = "initial"]_vars

\* a second __iter__ on a finished instance whose thread has ended tests
\* self.finished in line 122
C19_Witness ==
    /\ finished /\ ipc = "isSet" /\ ppc = "dead" /\ received # <<>>

\* C20: however often the instance is iterated, start() is called only on
\* a thread that was never started: no start attempt raises.
C20_StartNeverFails == ipc # "RuntimeError"

(* ====================== properties of ThreadList ======================= *)

Solo == callers = {"c1"}

\* C3: with one caller of append, at most limit threads are running at any
\* time; the list grows and a thread is started only while fewer than limit
\* are running; append goes on to register at once when its capacity check
\* counts fewer than limit running threads and sleeps only when it counts
\* limit or more; until it has passed that check its thread is neither in
\* the list nor started.
C3_SoloAtMostLimit ==
    /\ [](Solo => Running <= limit)
    /\ [][Solo /\ (Len(tl') > Len(tl) \/ Running' > Running)
            => Running < limit]_vars
    /\ [][Solo /\ cpc["c1"] = "for" /\ cpc'["c1"] # "for" /\ cerr'["c1"] = "none"
            => cpc'["c1"] = (IF count["c1"] < limit THEN "append" ELSE "sleep")]_vars
    /\ [](Solo /\ cpc["c1"] \in {"active_count", "for", "sleep", "append"}
             => thd["c1"] \notin Tracked /\ th[thd["c1"]] = "new")

\* the single caller sleeps in append with its (limit+1)-th thread while
\* limit threads run; that thread is neither registered nor started
C3_Witness ==
    /\ Solo /\ cpc["c1"] = "sleep" /\ Running = limit
    /\ thd["c1"] = limit + 1 /\ thd["c1"] \notin Tracked
    /\ th[thd["c1"]] = "new"

\* C4: with concurrent callers of append, at most limit threads are
\* running and every running thread is in the list.
C4_AtomicAdmission ==
    /\ Running <= limit
    /\ \A t \in Threads : th[t] = "alive" => t \in Tracked

\* C5: append of a value that is no Thread raises TypeError in its first
\* step, with the list and every thread as they were; such a value never
\* gets to the capacity check, the sleep, the list or start.
C5_NonThreadRejected ==
    /\ [][\A c \in CallSites :
            cpc[c] = "isinstance" /\ thd[c] = NotAThread /\ cpc'[c] # cpc[c]
              => /\ cerr'[c] = "TypeError" /\ cpc'[c] = "idle"
                 /\ tl' = tl /\ th' = th]_vars
    /\ [](\A c \in CallSites :
            thd[c] = NotAThread => cpc[c] \in {"idle", "isinstance"})
    /\ [](NotAThread \notin Tracked)

\* one caller got TypeError while the pool is at capacity, another caller
\* sleeping in append
C5_Witness ==
    /\ cerr["c1"] = "TypeError" /\ thd["c1"] = NotAThread /\ cpc["c1"] = "idle"
    /\ Running = limit /\ cpc["c2"] = "sleep"

\* C11: a ThreadList with a limit of 0 or less is never built (its
\* constructor raises), so no append ever sleeps on such a pool.
C11_NonPositiveLimitRejected ==
    limit <= 0 => built # "instance" /\ \A c \in CallSites : cpc[c] # "sleep"

\* the callers asleep in the while loop of append
Asleep == {c \in CallSites : cpc[c] = "sleep"}

\* C14: when some caller is asleep in the while loop of append and fewer
\* than limit threads run (a running thread has exited), then under fair
\* scheduling an append call eventually registers its thread: the free
\* slot is granted to someone.
C14_SlotEventuallyGranted ==
    [](Asleep # {} /\ Running < limit
         => <>(\E c \in CallSites : cpc[c] = "start"))

\* C17: a handle in the list whose thread has not completed (registered
\* and not yet started, or running) is never removed from the list,
\* whatever the interleaving of the callers.
C17_OnlyCompletedRemoved ==
    [][\A t \in Threads :
          t \in Tracked /\ th[t] # "dead" => t \in Tracked']_vars

\* the items of a list whose thread is running, in the order of the list
RunningOf(lst) == SelectSeq(lst, LAMBDA t : th[t] = "alive")

\* C18: when the scan of an active_count has ended and since its beginning
\* no thread changed state and no other caller changed the list, its count
\* is the number of running threads of the list it began with, the list
\* now holds exactly those running handles in their former order, and so
\* the count is the length of the list.
C18_CountsAndPrunes ==
    \A c \in CallSites :
        cpc[c] = "for" /\ scan[c] = <<>> /\ steady[c]
          => /\ tl = RunningOf(snap[c])
             /\ count[c] = Len(RunningOf(snap[c]))
             /\ count[c] = Len(tl)
             /\ \A t \in Tracked : th[t] = "alive"

\* an undisturbed scan ended on a list of three: the middle handle still
\* runs and was kept, the other two were removed
C18_Witness ==
    /\ cpc["c1"] = "for" /\ scan["c1"] = <<>> /\ steady["c1"]
    /\ Len(snap["c1"]) = 3 /\ tl = <<snap["c1"][2]>> /\ count["c1"] = 1

(* ======================= properties of itergroup ======================= *)

\* the concatenation of a sequence of lists
RECURSIVE Flatten(_)
Flatten(gs) == IF gs = <<>> THEN <<>> ELSE Head(gs) \o Flatten(Tail(gs))

\* ceil(a / b) for b > 0
CeilDiv(a, b) == (a + b - 1) \div b

\* C9: for a positive size, the groups yielded, concatenated in the order
\* of the yields, are the iterable: at every point the groups yielded so
\* far followed by the group under construction are the items taken, and at
\* the end the groups alone are the whole iterable.
C9_ConcatIsInput ==
    size >= 1 =>
      /\ gpc = "loop" => Flatten(groups) \o group = SubSeq(iterable, 1, idx)
      /\ gpc = "done" => Flatten(groups) = iterable

\* itergroup ended on an input of differing items that took three groups
C9_Witness ==
    /\ gpc = "done" /\ size >= 1 /\ Len(groups) = 3
    /\ \E i, j \in 1..Len(iterable) : iterable[i] # iterable[j]

\* C10: for a positive size, itergroup yields ceil(len/size) groups; all
\* but the last hold size items, the last holds 1..size items; an empty
\* iterable yields no group.
C10_GroupSizes ==
    (size >= 1 /\ gpc = "done") =>
      /\ Len(groups) = CeilDiv(Len(iterable), size)
      /\ \A i \in 1..(Len(groups) - 1) : Len(groups[i]) = size
      /\ groups # <<>> =>
           /\ Len(groups[Len(groups)]) >= 1
           /\ Len(groups[Len(groups)]) <= size
      /\ iterable = <<>> => groups = <<>>

\* itergroup ended with a shorter last group after a full one
C10_Witness ==
    /\ gpc = "done" /\ size >= 2 /\ Len(groups) >= 2
    /\ Len(groups[Len(groups)]) < size


\* C12: with a size of 0 or less itergroup yields no group and does not
\* end normally (it raises), whatever the iterable.
C12_BadSizeRejected == size <= 0 => groups = <<>> /\ gpc # "done"

====
